---- MODULE Spec2Model ----
(***************************************************************************)
(* Parostok catalog backend: the reconciler upsert_items over the SQLite   *)
(* store (hybrids, attributes, runs), the reader read_catalog, and the     *)
(* update job run_update with the scraper's run().                         *)
(*                                                                         *)
(* Abstractions: utc_now() is a strictly increasing counter; sha256 is a   *)
(* collision-free tag around its argument; the AUTOINCREMENT id of an      *)
(* attribute row is not kept (no statement of the program reads it), the   *)
(* attributes table is the sequence of its rows in insertion order.        *)
(***************************************************************************)
EXTENDS Integers, Sequences, FiniteSets, TLC

\* ------------------------------------------------------------------ bounds
MaxBatch == 2      \* longest batch one upsert_items call is given
MaxTicks == 4      \* manual imports are accepted while utc_now() stays within this

\* ------------------------------------------------- Python and SQLite values
PyAbsent == [t |-> "absent", v |-> ""]      \* the dict has no such key
PyNone == [t |-> "none", v |-> ""]
PyStr(s) == [t |-> "str", v |-> s]
PyInt(d) == [t |-> "int", v |-> d]          \* the int whose decimal form is d
SqlNull == [t |-> "null", v |-> ""]
SqlText(s) == [t |-> "text", v |-> s]

\* dict.get(key, default)
dict_get(x, default) == IF x.t = "absent" THEN default ELSE x

\* Python str() of an item value or of a value read back from a row
str(x) == IF x.t \in {"none", "null"} THEN "None" ELSE x.v

\* binding a Python value into a column of TEXT affinity
bind_text(x) == IF x.t = "none" THEN SqlNull ELSE SqlText(x.v)

\* Python truthiness of an optional string
truthy(x) == x.t \notin {"none", "null", "absent"} /\ x.v # ""

\* hashlib.sha256(...).hexdigest(), collision-free
sha256(x) == <<"sha256", x>>

\* code point order of the strings that occur in fingerprints
StrOrder ==
  <<"", "260", "270", "9", "FAO: 260", "FAO: 270", "cold 9", "fao", "rating.cold">>

Rank(s) == CHOOSE i \in 1..Len(StrOrder) : StrOrder[i] = s

\* json.dumps of an optional string
JsonNull == [t |-> "null", v |-> ""]
JsonStr(s) == [t |-> "str", v |-> s]
json_of(x) == IF x.t = "none" THEN JsonNull ELSE JsonStr(x.v)

\* order of the third tuple component under sorted(); the batches below never
\* make sorted() compare None with a str (that comparison raises TypeError)
JsonRank(e) == IF e.t = "null" THEN 0 ELSE Rank(e.v)

\* tuple comparison of (key, str(value), evidence)
TripleLess(a, b) ==
  \/ Rank(a.k) < Rank(b.k)
  \/ a.k = b.k /\ Rank(a.v) < Rank(b.v)
  \/ a.k = b.k /\ a.v = b.v /\ JsonRank(a.e) < JsonRank(b.e)

RECURSIVE InsertSorted(_, _)
InsertSorted(x, s) ==
  IF s = << >> THEN <<x>>
  ELSE IF TripleLess(x, Head(s)) THEN <<x>> \o s
  ELSE <<Head(s)>> \o InsertSorted(x, Tail(s))

RECURSIVE sorted(_)
sorted(s) == IF s = << >> THEN << >> ELSE InsertSorted(Head(s), sorted(Tail(s)))

\* the canonical order the fingerprint is serialised in
canonical(s) == sorted(s)

\* ------------------------------------------------------------------- items
Selector == "regex_on_page_text"

\* attribute records as the Extractor or a manual import supplies them
aFao260 == [key |-> "fao", value |-> PyStr("260"), evidence |-> PyStr("FAO: 260"),
            selector |-> PyStr(Selector), source_url |-> PyAbsent, extracted_at |-> 0]
aFao270 == [key |-> "fao", value |-> PyStr("270"), evidence |-> PyStr("FAO: 270"),
            selector |-> PyStr(Selector), source_url |-> PyAbsent, extracted_at |-> 0]
aCold9 == [key |-> "rating.cold", value |-> PyInt("9"), evidence |-> PyStr("cold 9"),
           selector |-> PyStr(Selector), source_url |-> PyAbsent, extracted_at |-> 0]
\* the same facts as aFao270, aCold9 with another provenance
aFao270m == [key |-> "fao", value |-> PyStr("270"), evidence |-> PyStr("FAO: 270"),
             selector |-> PyStr("manual"), source_url |-> PyStr("sheet"), extracted_at |-> 0]
aCold9m == [key |-> "rating.cold", value |-> PyStr("9"), evidence |-> PyStr("cold 9"),
            selector |-> PyNone, source_url |-> PyStr("sheet"), extracted_at |-> 0]
\* an attribute whose evidence is an explicit null
aFaoNull == [key |-> "fao", value |-> PyStr("260"), evidence |-> PyNone,
             selector |-> PyStr("manual"), source_url |-> PyAbsent, extracted_at |-> 0]

AttrLists == { <<aFao260>>, <<aFao270, aCold9>>, <<aCold9m, aFao270m>> }

Urls == {"u1", "u2"}

mk_item(url, attrs) ==
  [name |-> "DKS 3747", market |-> "UA", source_url |-> url, crop |-> PyStr("corn"),
   brand |-> PyStr("DEKALB (Bayer)"), attributes |-> attrs]

Items == { mk_item("u1", l) : l \in AttrLists } \cup { mk_item("u2", <<aFao260>>) }

SeqsUpTo(S, n) == UNION { [1..k -> S] : k \in 0..n }

Batches == SeqsUpTo(Items, MaxBatch)

\* items upsert_items cannot store: a null crop, no crop at all
FailingItems ==
  { [mk_item(url, <<aFao260>>) EXCEPT !.crop = c] :
      url \in Urls, c \in {PyNone, PyAbsent} }

\* batches that end in such an item
FailingBatches ==
  { <<bad>> : bad \in FailingItems }
  \cup { <<mk_item("u1", l), bad>> : l \in AttrLists, bad \in FailingItems }

\* what POST /api/catalog/manual-import may carry: also a null evidence
ImportItems == Items \cup { mk_item("u1", <<aFaoNull>>) }
ImportBatches == SeqsUpTo(ImportItems, MaxBatch)

\* w1 reconciles a batch; w2 is a competing import of a single item
Workers == {"w1", "w2"}
BatchesOf(w) == IF w = "w1" THEN Batches ELSE { <<i>> : i \in Items }

\* ------------------------------------------------------------------- store
EmptyDb == [hybrids |-> << >>, attributes |-> << >>]

same_key(h, item) ==
  h.name = item.name /\ h.market = item.market /\ h.source_url = item.source_url

\* SELECT id FROM hybrids WHERE name=? AND market=? AND source_url=?  (0: no row)
select_id(view, item) ==
  LET S == { i \in DOMAIN view.hybrids : same_key(view.hybrids[i], item) }
  IN IF S = {} THEN 0 ELSE CHOOSE i \in S : \A j \in S : i <= j

hybrid_row(item, now) ==
  [crop |-> item.crop.v, name |-> item.name, brand |-> bind_text(item.brand),
   market |-> item.market, source_url |-> item.source_url,
   last_seen |-> now, last_updated |-> now]

\* INSERT without the UNIQUE(name, market, source_url) conflict check
insert_always(view, item, now) ==
  [view EXCEPT !.hybrids = Append(@, hybrid_row(item, now))]

\* INSERT OR IGNORE INTO hybrids: the row is skipped on a UNIQUE or NOT NULL conflict
insert_or_ignore(view, item, now) ==
  IF select_id(view, item) # 0 \/ item.crop.t = "none"
  THEN view
  ELSE [view EXCEPT !.hybrids = Append(@, hybrid_row(item, now))]

\* SELECT key, value, evidence FROM attributes WHERE hybrid_id=?
select_kve(view, hid) ==
  LET rows == SelectSeq(view.attributes, LAMBDA r : r.hybrid_id = hid)
  IN [i \in DOMAIN rows |->
        [key |-> rows[i].key, value |-> rows[i].value, evidence |-> rows[i].evidence]]

\* the fingerprint of the item's attribute list
new_fingerprint(attrs) ==
  canonical([i \in DOMAIN attrs |->
     [k |-> attrs[i].key, v |-> str(attrs[i].value),
      e |-> json_of(dict_get(attrs[i].evidence, PyStr("")))]])

\* the fingerprint of the stored rows: r["evidence"] or ""
existing_fingerprint(rows) ==
  canonical([i \in DOMAIN rows |->
     [k |-> rows[i].key, v |-> str(rows[i].value),
      e |-> JsonStr(IF truthy(rows[i].evidence) THEN rows[i].evidence.v ELSE "")]])

\* UPDATE hybrids SET last_seen=?, last_updated=? WHERE id=?
touch_both(view, hid, now) ==
  [view EXCEPT !.hybrids[hid].last_seen = now, !.hybrids[hid].last_updated = now]

\* UPDATE hybrids SET last_seen=? WHERE id=?
touch_seen(view, hid, now) ==
  [view EXCEPT !.hybrids[hid].last_seen = now]

\* a replacement that leaves the prior rows in place
keep_attributes(view, hid) == view

\* DELETE FROM attributes WHERE hybrid_id=?
delete_attributes(view, hid) ==
  [view EXCEPT !.attributes = SelectSeq(@, LAMBDA r : r.hybrid_id # hid)]

attribute_row(hid, item, attr, now) ==
  LET evidence == dict_get(attr.evidence, PyStr(""))
  IN [hybrid_id |-> hid,
      key |-> attr.key,
      value |-> bind_text(dict_get(attr.value, PyNone)),
      evidence |-> bind_text(evidence),
      evidence_hash |-> IF truthy(evidence) THEN sha256(evidence.v) ELSE <<"null">>,
      selector |-> bind_text(dict_get(attr.selector, PyNone)),
      source_url |-> dict_get(attr.source_url, PyStr(item.source_url)).v,
      extracted_at |-> IF attr.extracted_at = 0 THEN now ELSE attr.extracted_at]

\* INSERT INTO attributes(...)
insert_attribute(view, hid, item, attr, now) ==
  [view EXCEPT !.attributes = Append(@, attribute_row(hid, item, attr, now))]

\* the columns read_catalog selects of an attribute row
columns(r) ==
  [key |-> r.key, value |-> r.value, evidence |-> r.evidence,
   evidence_hash |-> r.evidence_hash, selector |-> r.selector,
   source_url |-> r.source_url, extracted_at |-> r.extracted_at]

\* SELECT key, value, evidence, evidence_hash, selector, source_url, extracted_at
\*   FROM attributes WHERE hybrid_id=?
select_attributes(view, hid) ==
  LET rows == SelectSeq(view.attributes, LAMBDA r : r.hybrid_id = hid)
  IN [i \in DOMAIN rows |-> columns(rows[i])]

\* ORDER BY crop, name: every row of this model has the same crop and name, so
\* the rows come back in rowid order
ordered_ids(view) == [i \in DOMAIN view.hybrids |-> i]

\* the value read_catalog returns, read in one go
catalog_of(view) ==
  [n \in DOMAIN ordered_ids(view) |->
     [id |-> ordered_ids(view)[n], row |-> view.hybrids[ordered_ids(view)[n]],
      attributes |-> select_attributes(view, ordered_ids(view)[n])]]

\* ------------------------------------------- upsert_items, statement by statement
\* The frame of a call: pc, the batch, the loop index idx, the locals of the loop
\* body, and counts. A step takes [f: frame, view: what the connection sees,
\* clock] to the same after the statement.
ZeroCounts == [added |-> 0, updated |-> 0, unchanged |-> 0]

IdleFrame ==
  [pc |-> "idle", batch |-> << >>, idx |-> 0, now |-> 0, had_existing |-> FALSE,
   rowcount |-> 0, hybrid_id |-> 0, existing_rows |-> << >>, ai |-> 0,
   counts |-> ZeroCounts]

enter(batch) ==
  [IdleFrame EXCEPT !.pc = IF batch = << >> THEN "commit" ELSE "select",
                    !.batch = batch, !.idx = 1]

item_of(f) == f.batch[f.idx]

\* the pc after the current item: the next item, or the end of the with block
after_item(f) == IF f.idx < Len(f.batch) THEN "select" ELSE "commit"

\* now = utc_now(); existing = SELECT id ...; had_existing = existing is not None
do_select(s) ==
  [s EXCEPT !.clock = @ + 1,
            !.f = [@ EXCEPT !.pc = "insert", !.now = s.clock + 1,
                            !.had_existing = (select_id(s.view, item_of(s.f)) # 0)]]

\* INSERT OR IGNORE, if cur.rowcount: added += 1, hybrid_id = SELECT id ... [0]
do_insert(s) ==
  LET new == insert_or_ignore(s.view, item_of(s.f), s.f.now)
      rowcount == Len(new.hybrids) - Len(s.view.hybrids)
      hid == select_id(new, item_of(s.f))
  IN IF item_of(s.f).crop.t = "absent" \/ hid = 0
     THEN \* item["crop"]: KeyError, or fetchone() is None: TypeError
          [s EXCEPT !.f = [@ EXCEPT !.pc = "failed"]]
     ELSE [s EXCEPT !.view = new,
                    !.f = [@ EXCEPT !.pc = "classify", !.rowcount = rowcount,
                                    !.hybrid_id = hid, !.counts.added = @ + rowcount]]

\* an unchanged branch that also stamps last_updated
stamp_both(view, hid, now) ==
  [view EXCEPT !.hybrids[hid].last_seen = now, !.hybrids[hid].last_updated = now]

\* what the branch "if had_existing and new_hash == existing_hash" does to the row
on_unchanged(view, hid, now) == touch_seen(view, hid, now)

\* the two fingerprints; the unchanged branch, or the UPDATE that starts a replacement
do_classify(s) ==
  LET f == s.f
      rows == select_kve(s.view, f.hybrid_id)
      new_hash == sha256(new_fingerprint(item_of(f).attributes))
      existing_hash == sha256(existing_fingerprint(rows))
  IN IF f.had_existing /\ new_hash = existing_hash
     THEN [s EXCEPT !.view = on_unchanged(s.view, f.hybrid_id, f.now),
                    !.f = [@ EXCEPT !.pc = after_item(f), !.idx = @ + 1,
                                    !.existing_rows = rows,
                                    !.counts.unchanged = @ + 1]]
     ELSE [s EXCEPT !.view = touch_both(s.view, f.hybrid_id, f.now),
                    !.f = [@ EXCEPT !.pc = "delete", !.existing_rows = rows,
                                    !.counts.updated =
                                       IF f.had_existing THEN @ + 1 ELSE @]]

\* DELETE FROM attributes WHERE hybrid_id=?
do_delete(s) ==
  [s EXCEPT !.view = delete_attributes(s.view, s.f.hybrid_id),
            !.f = IF item_of(s.f).attributes = << >>
                  THEN [@ EXCEPT !.pc = after_item(s.f), !.idx = @ + 1]
                  ELSE [@ EXCEPT !.pc = "insattr", !.ai = 1]]

\* one turn of: for attr in item.get("attributes", []): INSERT INTO attributes
do_insattr(s) ==
  LET f == s.f
  IN [s EXCEPT !.view = insert_attribute(s.view, f.hybrid_id, item_of(f),
                                         item_of(f).attributes[f.ai], f.now),
               !.f = IF f.ai < Len(item_of(f).attributes)
                     THEN [@ EXCEPT !.ai = @ + 1]
                     ELSE [@ EXCEPT !.pc = after_item(f), !.idx = @ + 1]]

do_step(s) ==
  CASE s.f.pc = "select" -> do_select(s)
    [] s.f.pc = "insert" -> do_insert(s)
    [] s.f.pc = "classify" -> do_classify(s)
    [] s.f.pc = "delete" -> do_delete(s)
    [] s.f.pc = "insattr" -> do_insattr(s)

\* the loop of upsert_items run to the end of the with block by one connection
\* that nobody interrupts: pc "commit" (COMMIT follows) or "failed" (ROLLBACK)
RECURSIVE run_items(_)
run_items(s) == IF s.f.pc \in {"commit", "failed"} THEN s ELSE run_items(do_step(s))

\* upsert_items(items) as one transaction on the committed store
upsert_items(store, items, clk) ==
  LET r == run_items([f |-> enter(items), view |-> store, clock |-> clk])
  IN [ok |-> r.f.pc = "commit",
      store |-> IF r.f.pc = "commit" THEN r.view ELSE store,
      counts |-> r.f.counts,
      clock |-> r.clock]

\* ------------------------------------------------------ sources and the site
\* source_registry(): id, enabled, reason
Registry ==
  << [id |-> "bayer_ua_dekalb", enabled |-> TRUE, reason |-> "None"],
     [id |-> "bayer_us_dekalb", enabled |-> FALSE,
      reason |-> "Network scraping not configured in this starter; use manual import."] >>

\* the ids an UpdateRequest may name: the two registered ones and an unknown one
SourceIds == {"bayer_ua_dekalb", "bayer_us_dekalb", "acme_seeds"}

Requests == [sources : SUBSET SourceIds, dry_run : BOOLEAN]

\* a filter that keeps the sources whose flag is set, whatever the caller wanted
sources_where(req, flag) ==
  SelectSeq(Registry, LAMBDA r : r.id \in req.sources /\ r.enabled)

\* every requested source of the registry, enabled or not
named_sources(req) == SelectSeq(Registry, LAMBDA r : r.id \in req.sources)

\* [s for s in source_registry() if s.id in req.sources and s.enabled == flag]
sources_with(req, flag) ==
  SelectSeq(Registry, LAMBDA r : r.id \in req.sources /\ r.enabled = flag)

enabled_sources(req) == sources_with(req, TRUE)

disabled_sources(req) == sources_with(req, FALSE)

\* The site as one crawl finds it: whether the start page and the catalog page
\* c1 can be fetched (the start page may also link no catalog page), and for
\* each product URL under c1 whether c1 links it, whether it can be fetched,
\* whether it has an h1, and which facts it shows.
PageStates == {"absent", "fail", "noname", "v1", "v2"}

Sites ==
  { [start |-> "fail", catalog |-> "absent", pages |-> [u \in Urls |-> "absent"]],
    [start |-> "ok", catalog |-> "absent", pages |-> [u \in Urls |-> "absent"]],
    [start |-> "ok", catalog |-> "fail", pages |-> [u \in Urls |-> "absent"]] }
  \cup [start : {"ok"}, catalog : {"ok"}, pages : [Urls -> PageStates]]

NoSite == [start |-> "none", catalog |-> "absent", pages |-> [u \in Urls |-> "absent"]]

SortedUrls == <<"u1", "u2">>       \* Urls in code point order

\* discover_catalog_pages(): sorted(found) (the fetch of the start page worked)
discover_catalog_pages(site) == IF site.catalog = "absent" THEN << >> ELSE <<"c1">>

\* discover_product_pages(catalog_url): sorted(found) (the fetch of c1 worked)
discover_product_pages(site, catalog_url) ==
  SelectSeq(SortedUrls, LAMBDA u : site.pages[u] # "absent")

\* add_attr(): every attribute carries source_url = product_url
page_attributes(site, url) ==
  LET facts == IF site.pages[url] = "v2" THEN <<aFao270, aCold9>>
               ELSE IF site.pages[url] = "v1" THEN <<aFao260>> ELSE << >>
  IN [i \in DOMAIN facts |-> [facts[i] EXCEPT !.source_url = PyStr(url)]]

\* parse_product(product_url) (the fetch worked); name "" stands for no h1
parse_product(site, url) ==
  [mk_item(url, page_attributes(site, url)) EXCEPT
     !.name = IF site.pages[url] = "noname" THEN "" ELSE @]

NoResult ==
  [ok |-> FALSE, exc |-> "", catalog_urls |-> << >>, product_urls |-> << >>,
   items |-> << >>]

raised(exc) == [NoResult EXCEPT !.exc = exc]

\* the loop of run() over sorted(product_urls): a fetch error leaves the loop
\* and run(); an item with a falsy name is not appended
RECURSIVE parse_all(_, _, _)
parse_all(site, urls, items) ==
  IF urls = << >> THEN [ok |-> TRUE, items |-> items]
  ELSE IF site.pages[Head(urls)] = "fail" THEN [ok |-> FALSE, items |-> items]
  ELSE LET item == parse_product(site, Head(urls))
       IN parse_all(site, Tail(urls),
                    IF item.name # "" THEN Append(items, item) ELSE items)

\* BayerUADekalbScraper.run()
scraper_run(site) ==
  IF site.start = "fail" THEN raised("URLError")
  ELSE IF site.catalog = "fail" THEN raised("URLError")
  ELSE LET catalog_urls == discover_catalog_pages(site)
           product_urls == IF catalog_urls = << >> THEN << >>
                           ELSE discover_product_pages(site, catalog_urls[1])
           parsed == parse_all(site, product_urls, << >>)
       IN IF ~parsed.ok THEN raised("URLError")
          ELSE [ok |-> TRUE, exc |-> "", catalog_urls |-> catalog_urls,
                product_urls |-> product_urls, items |-> parsed.items]

\* ------------------------------------------------------------------- runs
Jobs == {"j1"}

ZeroRunCounts ==
  [discovered |-> 0, parsed |-> 0, added |-> 0, updated |-> 0, unchanged |-> 0,
   errors |-> 0]

\* finished_at 0 stands for None
NoRun ==
  [status |-> "none", step_logs |-> << >>, started_at |-> 0, finished_at |-> 0,
   counts |-> ZeroRunCounts]

new_run(now) == [NoRun EXCEPT !.status = "running", !.started_at = now]

\* a row that leaves the counters out
row_without_counts(run) ==
  [started_at |-> run.started_at, finished_at |-> run.finished_at,
   status |-> run.status, logs_json |-> run.step_logs, counts_json |-> ZeroRunCounts]

\* the row persist_run writes: INSERT OR REPLACE INTO runs
run_row(run) ==
  [started_at |-> run.started_at, finished_at |-> run.finished_at,
   status |-> run.status, logs_json |-> run.step_logs, counts_json |-> run.counts]

NoRow == run_row(NoRun)

\* a log entry: message, the source id and the free text it is formatted with
entry(now, message, src, text) ==
  [time |-> now, message |-> message, src |-> src, text |-> text]

\* log(msg): logs.append({"time": utc_now(), "message": msg})
log_append(run, now, message, src, text) ==
  [run EXCEPT !.step_logs = Append(@, entry(now, message, src, text))]

IdleJob ==
  [pc |-> "none", req |-> [sources |-> {}, dry_run |-> FALSE],
   enabled |-> << >>, disabled |-> << >>, src |-> "", site |-> NoSite,
   result |-> NoResult, counts |-> ZeroCounts, exc |-> ""]

\* where control goes when a statement inside "try:" raises
crashed == "crashed"

handler == "except"

\* errors that leave the counter alone
count_nothing(counts) == counts

\* run["counts"]["errors"] += 1
count_error(counts) == [counts EXCEPT !.errors = @ + 1]

\* ------------------------------------------------------- link discovery
\* A URL path is the sequence of its "/" and of the segments between them:
\* /Products/Dekalb/corn is <<"/", "Products", "/", "Dekalb", "/", "corn">>.
MaxDepth == 4

Slash == "/"

Host == "www.cropscience.bayer.ua"

Hosts == {Host, "shop.example.com"}

Segments == {"Products", "Dekalb", "corn"}

RECURSIVE PathsOfDepth(_)
PathsOfDepth(n) ==
  IF n = 0 THEN { << >> }
  ELSE { p \o <<Slash, s>> : p \in PathsOfDepth(n - 1), s \in Segments }

\* every path of 1..MaxDepth segments, with and without a trailing slash
Paths ==
  LET plain == UNION { PathsOfDepth(n) : n \in 1..MaxDepth }
  IN plain \cup { p \o <<Slash>> : p \in plain }

\* a link of a page after urljoin and urlparse: netloc, path, query
Link(host, path, query) == [host |-> host, path |-> path, query |-> query]

pCorn == <<Slash, "Products", Slash, "Dekalb", Slash, "corn">>

\* a page with several links: catalog pages, product pages, the same page
\* twice with different queries, deeper and shallower paths, another host
MixedLinks ==
  { Link(Host, pCorn, ""), Link(Host, pCorn, "page=2"),
    Link(Host, <<Slash, "Products", Slash, "Dekalb">>, ""),
    Link(Host, <<Slash, "Products", Slash, "Dekalb", Slash>>, ""),
    Link(Host, pCorn \o <<Slash>>, ""),
    Link(Host, pCorn \o <<Slash, Slash>>, ""),
    Link(Host, pCorn \o <<Slash, "dks3747">>, ""),
    Link(Host, pCorn \o <<Slash, "dks3747">>, "tab=2"),
    Link(Host, pCorn \o <<Slash, "dks3747", Slash, "specs">>, ""),
    Link(Host, <<Slash, "Products", Slash, "Dekalb", Slash, "cornflower", Slash, "x1">>, ""),
    Link(Host, <<Slash, "Products", Slash, "Dekalb", Slash, "osr", Slash, "dk1">>, ""),
    Link(Host, <<Slash, "about", Slash, "Products", Slash, "Dekalb", Slash>>, ""),
    Link(Host, <<Slash, "News", Slash, "Dekalb", Slash, "corn">>, ""),
    Link("shop.example.com", pCorn, ""),
    Link("shop.example.com", pCorn \o <<Slash, "dks3747">>, "") }

\* the link sets of the pages discovery is applied to
LinkPages ==
  { {Link(h, p, "")} : h \in Hosts, p \in Paths } \cup {MixedLinks, {}}

\* parsed.path.count("/")
count(path, tok) == Cardinality({ i \in DOMAIN path : path[i] = tok })

\* path.rstrip("/")
RECURSIVE rstrip(_)
rstrip(path) ==
  IF path # << >> /\ path[Len(path)] = Slash
  THEN rstrip(SubSeq(path, 1, Len(path) - 1)) ELSE path

\* sub in path
contains(path, sub) ==
  \E i \in 0..(Len(path) - Len(sub)) : SubSeq(path, i + 1, i + Len(sub)) = sub

\* path.startswith(prefix)
startswith(path, prefix) ==
  Len(prefix) <= Len(path) /\ SubSeq(path, 1, Len(prefix)) = prefix

\* full.split("?")[0]: the URL without its query
without_query(link) == [host |-> link.host, path |-> link.path]

\* a filter that has no depth test
keep_any_depth(link) ==
  /\ link.host = Host
  /\ contains(link.path, <<Slash, "Products", Slash, "Dekalb", Slash>>)
  /\ rstrip(link.path) # <<Slash, "Products", Slash, "Dekalb">>

\* the tests of discover_catalog_pages on one link
keep_catalog(link) ==
  /\ link.host = Host
  /\ contains(link.path, <<Slash, "Products", Slash, "Dekalb", Slash>>)
  /\ rstrip(link.path) # <<Slash, "Products", Slash, "Dekalb">>
  /\ count(link.path, Slash) = 3

\* discover_catalog_pages(): found
catalog_links(links) == { without_query(l) : l \in { k \in links : keep_catalog(k) } }

\* path_prefix = urlparse(catalog_url).path.rstrip("/") + "/"
path_prefix(catalog_path) == rstrip(catalog_path) \o <<Slash>>

\* the tests of discover_product_pages on one link
keep_product(link, catalog_path) ==
  /\ link.host = Host
  /\ startswith(link.path, path_prefix(catalog_path))
  /\ rstrip(link.path) # rstrip(path_prefix(catalog_path))
  /\ count(link.path, Slash) >= 4

\* discover_product_pages(catalog_url): found
product_links(links, catalog_path) ==
  { without_query(l) : l \in { k \in links : keep_product(k, catalog_path) } }

\* the catalog URLs discover_product_pages is called with: a catalog page,
\* and the start URL and its form with a trailing slash
CatalogPaths ==
  { pCorn, <<Slash, "Products", Slash, "Dekalb">>,
    <<Slash, "Products", Slash, "Dekalb", Slash>> }

IdleDisc == [pc |-> "page", links |-> {}, catalog |-> << >>, found |-> {}]

\* ------------------------------------------------------------ the crawl
\* The site one run() crawls: the start page links catalog c1 and maybe c2,
\* each catalog links product pages, some linked by both; a page cannot be
\* fetched, or has a heading, a heading of white space only, or no h1.
ProductUrls == {"p1", "p2", "p3"}

CrawlSites ==
  [start : {"ok", "fail"},
   links : [{"c1"} -> SUBSET ProductUrls]
             \cup [{"c1", "c2"} -> {{}, {"p1", "p2"}, {"p3", "p2"}, {"p2"}}],
   pages : [ProductUrls -> {"named", "blank", "noh1"}]
             \cup {[u \in ProductUrls |-> IF u = "p2" THEN "fail" ELSE "named"]}]

\* code point order of the URLs of the site
UrlOrder == <<"c1", "c2", "p1", "p2", "p3">>

\* a list of the URLs in the order a set happens to iterate them
listed(found) == SelectSeq(<<"p3", "c2", "p1", "c1", "p2">>, LAMBDA x : x \in found)

\* sorted(found) of a set of URLs
sorted_urls(found) == SelectSeq(UrlOrder, LAMBDA x : x \in found)

\* parse_product(product_url) as far as run() looks at it: name is
\* _clean(h1 text) if h1 else None
named_item(site, url) ==
  [source_url |-> url,
   name |-> CASE site.pages[url] = "named" -> PyStr("DKS " \o url)
              [] site.pages[url] = "blank" -> PyStr("")
              [] OTHER -> PyNone]

IdleCrawl ==
  [pc |-> "idle", site |-> [start |-> "ok", links |-> [c \in {"c1"} |-> {}],
                            pages |-> [u \in ProductUrls |-> "noh1"]],
   catalog_urls |-> << >>, todo |-> << >>, product_urls |-> {},
   fetched |-> << >>, items |-> << >>,
   result |-> [catalog_urls |-> << >>, product_urls |-> << >>, items |-> << >>]]

\* ------------------------------------------------------- product pages
\* A text is a sequence of lines, a line a sequence of words; ":" is a word
\* of its own, written without a space before it. An optional text is
\* [some |-> FALSE] (None) or [some |-> TRUE, lines |-> text].
EvidenceLimit == 240

None == [some |-> FALSE, lines |-> << >>]

Some(text) == [some |-> TRUE, lines |-> text]

\* len() of a line in characters: "essay" stands for a word of 300 characters
chars(line) ==
  LET wordlen(w) == CASE w = "essay" -> 300 [] w \in {":", "9", "0", "8", "*"} -> 1
                      [] w = "all" -> 3 [] OTHER -> 4
      upto[i \in 0..Len(line)] ==
        IF i = 0 THEN 0
        ELSE upto[i - 1] + wordlen(line[i]) + (IF i > 1 /\ line[i] # ":" THEN 1 ELSE 0)
  IN upto[Len(line)]

\* _clean(s): every run of white space, line breaks included, becomes one
\* space: the text becomes a single line, or "" when it has no word
clean(text) ==
  LET all[i \in 0..Len(text)] == IF i = 0 THEN << >> ELSE all[i - 1] \o text[i]
  IN IF all[Len(text)] = << >> THEN << >> ELSE <<all[Len(text)]>>

\* _find_block(after_heading, text): the lines between the heading and the
\* next heading (or the end), through _clean; None without the heading
find_block(block) == IF block.some THEN Some(clean(block.lines)) ELSE None

\* _parse_kv_lines(block): the dict as its (key, value) pairs in insertion order
parse_kv_lines(text) ==
  LET colon(line) == { i \in DOMAIN line : line[i] = ":" }
      first(line) == CHOOSE i \in colon(line) : \A k \in colon(line) : i <= k
      set(out, k, v) ==
        IF \E i \in DOMAIN out : out[i].k = k
        THEN [i \in DOMAIN out |-> IF out[i].k = k THEN [k |-> k, v |-> v] ELSE out[i]]
        ELSE Append(out, [k |-> k, v |-> v])
      step(out, line) ==
        IF colon(line) = {} THEN out
        ELSE LET k == SubSeq(line, 1, first(line) - 1)
                 v == SubSeq(line, first(line) + 1, Len(line))
             IN IF k # << >> /\ v # << >> THEN set(out, k, v) ELSE out
      upto[i \in 0..Len(text)] == IF i = 0 THEN << >> ELSE step(upto[i - 1], text[i])
  IN upto[Len(text)]

\* _parse_ratings(block): a line that ends in a number gives label -> score,
\* the label being the line before the number without its bullets
parse_ratings(text) ==
  LET score(w) == CASE w = "9" -> 9 [] w = "8" -> 8 [] OTHER -> 0
      step(out, line) ==
        IF line = << >> \/ line[Len(line)] \notin {"9", "8", "0"} THEN out
        ELSE LET label == SelectSeq(SubSeq(line, 1, Len(line) - 1), LAMBDA w : w # "*")
             IN IF label = << >> THEN out
                ELSE IF \E i \in DOMAIN out : out[i].k = label
                THEN [i \in DOMAIN out |->
                        IF out[i].k = label THEN [k |-> label, v |-> score(line[Len(line)])]
                        ELSE out[i]]
                ELSE Append(out, [k |-> label, v |-> score(line[Len(line)])])
      upto[i \in 0..Len(text)] == IF i = 0 THEN << >> ELSE step(upto[i - 1], text[i])
  IN upto[Len(text)]

\* an add_attr that appends whatever it is given
add_anything(attrs, url, key, value, evidence) ==
  Append(attrs, [key |-> key, value |-> value, selector |-> "",
                 evidence |-> [text |-> evidence.lines, len |-> 0], source_url |-> url])

\* add_attr(key, value, evidence): value and evidence are optional; a value is
\* [some, lines] for a string or [some, int] for a score; the evidence kept
\* is (evidence or str(value))[:240], as its text and its length
add_attr(attrs, url, key, value, evidence) ==
  IF ~value.some \/ ("lines" \in DOMAIN value /\ value.lines = << >>) THEN attrs
  ELSE LET snippet ==
             IF evidence.some /\ evidence.lines # << >> THEN evidence.lines
             ELSE IF "lines" \in DOMAIN value THEN value.lines
             ELSE <<<<IF value.int = 9 THEN "9" ELSE IF value.int = 8 THEN "8" ELSE "0">>>>
           len == IF clean(snippet) = << >> THEN 0 ELSE chars(clean(snippet)[1])
       IN Append(attrs,
                 [key |-> key, value |-> value, selector |-> Selector,
                  evidence |-> [text |-> snippet,
                                len |-> IF len > EvidenceLimit THEN EvidenceLimit ELSE len],
                  source_url |-> url])

\* parse_product(product_url) on the text of a fetched page; the page gives
\* what _find_first returns for ФАО, Тип зерна and Група стиглості (None, or
\* the stripped match) and the lines under each of the four headings
parse_page(url, html) ==
  LET advantages == find_block(html.advantages)
      positioning == find_block(html.positioning)
      density == find_block(html.density)
      characteristics == find_block(html.characteristics)
      kv(block) == IF block.some /\ block.lines # << >>
                   THEN parse_kv_lines(block.lines) ELSE << >>
      ratings == IF characteristics.some /\ characteristics.lines # << >>
                 THEN parse_ratings(characteristics.lines) ELSE << >>
      labelled(label, v) == IF v.some /\ v.lines # << >>
                            THEN Some(<<<<label, ":">> \o clean(v.lines)[1]>>) ELSE None
      a1 == add_attr(<< >>, url, <<"fao">>, html.fao, labelled("FAO", html.fao))
      a2 == add_attr(a1, url, <<"grain_type">>, html.grain, labelled("grain", html.grain))
      a3 == add_attr(a2, url, <<"maturity_group">>, html.maturity,
                     labelled("maturity", html.maturity))
      a4 == IF advantages.some /\ advantages.lines # << >>
            THEN add_attr(a3, url, <<"advantages_text">>, advantages, advantages) ELSE a3
      pairs(attrs, prefix, d) ==
        LET upto[i \in 0..Len(d)] ==
              IF i = 0 THEN attrs
              ELSE add_attr(upto[i - 1], url, <<prefix>> \o d[i].k, Some(<<d[i].v>>),
                            Some(<<d[i].k \o <<":">> \o d[i].v>>))
        IN upto[Len(d)]
      a5 == pairs(a4, "positioning.", kv(positioning))
      a6 == pairs(a5, "density.", kv(density))
      a7[i \in 0..Len(ratings)] ==
        IF i = 0 THEN a6
        ELSE add_attr(a7[i - 1], url, <<"rating.">> \o ratings[i].k,
                      [some |-> TRUE, int |-> ratings[i].v],
                      Some(<<Append(ratings[i].k,
                                    IF ratings[i].v = 9 THEN "9"
                                    ELSE IF ratings[i].v = 8 THEN "8" ELSE "0")>>))
  IN [market |-> "UA", brand |-> "DEKALB (Bayer)",
      name |-> IF html.h1 THEN PyStr("DKS 3747") ELSE PyNone,
      crop |-> PyStr("corn"), source_url |-> url, attributes |-> a7[Len(ratings)]]

\* the pages parse_product is applied to
KvLines ==
  { << >>,
    <<<<"zone", ":", "all">>>>,
    <<<<"zone", ":", "all">>, <<"soil", ":", "high">>>>,
    <<<<"zone", "all">>, <<"soil", ":", "high">>>>,
    <<<<"zone", ":">>>>,
    <<<<"zone", ":", "all">>, <<"zone", ":", "high">>>>,
    <<<<"zone", ":", "essay">>>> }

ParsePages ==
  [h1 : BOOLEAN,
   fao : {None, Some(<<<<"260">>>>)},
   grain : {None, Some(<< >>), Some(<<<<"dent">>>>)},
   maturity : {None, Some(<<<<"mid", "early">>>>)},
   advantages : {None, Some(<< >>), Some(<<<<"high", "cold">>>>),
                 Some(<<<<"essay">>, <<"essay">>>>)},
   positioning : {None} \cup { Some(t) : t \in KvLines },
   density : {None, Some(<<<<"dry", ":", "9", "0">>>>)},
   characteristics : {None, Some(<<<<"cold", "*", "*", "9">>>>),
                      Some(<<<<"cold", "*", "9">>, <<"heat", "*", "8">>>>),
                      Some(<<<<"cold", "0">>>>)}]

ProductUrl == "https://www.cropscience.bayer.ua/Products/Dekalb/Corn/DKS3747"

NoPage ==
  [h1 |-> FALSE, fao |-> None, grain |-> None, maturity |-> None, advantages |-> None,
   positioning |-> None, density |-> None, characteristics |-> None]

IdlePage == [pc |-> "idle", url |-> ProductUrl, html |-> NoPage, item |-> parse_page(ProductUrl, NoPage)]

\* ------------------------------------------------------------------- state
VARIABLES
  db,        \* the committed content of catalog.db: hybrids and attributes
  pending,   \* the content as the open write transaction sees it
  writer,    \* the worker whose connection holds the write transaction, or "none"
  clock,     \* the last value utc_now() returned
  wk,        \* per worker: the frame of its upsert_items call
  rd,        \* the frame of a read_catalog call (GET /api/catalog)
  fallback,  \* the content of catalog_fallback.json
  imp,       \* the last manual_import request served and its outcome
  RUNS,      \* the in-memory registry: job id -> run
  runs_table,\* the runs table of catalog.db: job id -> persisted row
  job,       \* per job: the frame of its run_update thread
  LOCK,      \* the thread holding the registry lock, or "free"
  access,    \* the last access to RUNS: operation, thread, lock held or not
  poll,      \* what the last GET /api/catalog/update/{job_id} returned
  disc,      \* a discover_*_pages call: the page's links and what was found
  crawl,     \* the frame of a BayerUADekalbScraper.run() call
  page       \* a parse_product call: the page and the item returned

runvars == <<RUNS, runs_table, job>>

lockvars == <<LOCK, access, poll>>

scrapervars == <<disc, crawl, page>>

vars ==
  <<db, pending, writer, clock, wk, rd, fallback, imp, RUNS, runs_table, job,
    lockvars, scrapervars>>

\* no thread in post_update, run_update's lookup or get_update
NoAccess == [op |-> "none", by |-> "", locked |-> FALSE]

\* the thread that serves an HTTP request
RequestThread == "request"

\* an access to RUNS by a thread: made under the lock when the thread holds it
accessed(op, thread) == [op |-> op, by |-> thread, locked |-> LOCK = thread]

NoPoll == [status |-> "none", finished_at |-> 0, logs |-> 0]

\* what get_update returns for the run in RUNS (status "none": no entry) and
\* the row of the runs table (status "none": no row)
get_update(run, row) ==
  IF run.status # "none"
  THEN [status |-> run.status, finished_at |-> run.finished_at, logs |-> Len(run.step_logs)]
  ELSE IF row.status # "none"
  THEN [status |-> row.status, finished_at |-> row.finished_at, logs |-> Len(row.logs_json)]
  ELSE [status |-> "not_found", finished_at |-> 0, logs |-> 0]

LockIdle == LOCK = "free" /\ access = NoAccess /\ poll = NoPoll

\* no scraper call is in progress
ScraperIdle == disc = IdleDisc /\ crawl = IdleCrawl /\ page = IdlePage

IdleReader == [pc |-> "idle", hybs |-> << >>, i |-> 0, out |-> << >>]

NoImport ==
  [served |-> FALSE, batch |-> << >>, ok |-> TRUE, counts |-> ZeroCounts,
   prev |-> << >>, prev_ok |-> FALSE, before |-> << >>, hybrids_before |-> << >>]

Init ==
  /\ db = EmptyDb
  /\ pending = EmptyDb
  /\ writer = "none"
  /\ clock = 0
  /\ wk = [w \in Workers |-> IdleFrame]
  /\ rd = IdleReader
  /\ fallback = << >>
  /\ imp = NoImport
  /\ RUNS = [j \in Jobs |-> NoRun]
  /\ runs_table = [j \in Jobs |-> NoRow]
  /\ job = [j \in Jobs |-> IdleJob]
  /\ LockIdle
  /\ ScraperIdle

\* a connection reading the uncommitted pages of another connection's transaction
dirty_read(committed, uncommitted, holder) ==
  IF holder = "none" THEN committed ELSE uncommitted

\* what a connection without a write transaction of its own reads: committed data
visible(committed, uncommitted, holder) == committed

\* what the statements of worker w read
view_of(w) == IF writer = w THEN pending ELSE visible(db, pending, writer)

Item(w) == item_of(wk[w])

Frame(w) == [f |-> wk[w], view |-> view_of(w), clock |-> clock]

\* ------------------------------------------------------- upsert_items steps
\* a caller (manual_import or run_update) enters upsert_items(items)
Call(w) ==
  /\ wk[w].pc = "idle"
  /\ \E b \in BatchesOf(w) : wk' = [wk EXCEPT ![w] = enter(b)]
  /\ UNCHANGED <<db, pending, writer, clock, rd, fallback, imp, runvars, lockvars, scrapervars>>

SelectExisting(w) ==
  /\ wk[w].pc = "select"
  /\ clock' = do_select(Frame(w)).clock
  /\ wk' = [wk EXCEPT ![w] = do_select(Frame(w)).f]
  /\ UNCHANGED <<db, pending, writer, rd, fallback, imp, runvars, lockvars, scrapervars>>

\* an exit that commits what the connection wrote so far
commit_partial(committed, uncommitted, holds) ==
  IF holds THEN uncommitted ELSE committed

\* "with get_conn() as conn" left by an exception: ROLLBACK, the committed
\* store stays as it is
on_exception(committed, uncommitted, holds) == committed

\* the INSERT opens the write transaction of w's connection (BEGIN), or runs in it
InsertHybrid(w) ==
  /\ wk[w].pc = "insert"
  /\ writer \in {"none", w}
  /\ LET r == do_insert(Frame(w))
     IN /\ wk' = [wk EXCEPT ![w] = r.f]
        /\ IF r.f.pc = "failed"
           THEN /\ db' = on_exception(db, pending, writer = w)
                /\ pending' = EmptyDb /\ writer' = "none"
           ELSE /\ pending' = r.view /\ writer' = w
                /\ db' = db
  /\ UNCHANGED <<clock, rd, fallback, imp, runvars, lockvars, scrapervars>>

\* the write lock is held by another connection for the whole busy timeout:
\* sqlite3.OperationalError("database is locked") leaves upsert_items
Busy(w) ==
  /\ wk[w].pc = "insert"
  /\ writer \notin {"none", w}
  /\ wk' = [wk EXCEPT ![w] = [@ EXCEPT !.pc = "failed"]]
  /\ UNCHANGED <<db, pending, writer, clock, rd, fallback, imp, runvars, lockvars, scrapervars>>

InTransaction(w, pc) ==
  /\ wk[w].pc = pc
  /\ writer = w
  /\ pending' = do_step(Frame(w)).view
  /\ wk' = [wk EXCEPT ![w] = do_step(Frame(w)).f]
  /\ UNCHANGED <<db, writer, clock, rd, fallback, imp, runvars, lockvars, scrapervars>>

Classify(w) == InTransaction(w, "classify")

DeleteAttributes(w) == InTransaction(w, "delete")

InsertAttribute(w) == InTransaction(w, "insattr")

\* the with block ends without an exception: COMMIT
Commit(w) ==
  /\ wk[w].pc = "commit"
  /\ IF writer = w
     THEN db' = pending /\ writer' = "none" /\ pending' = EmptyDb
     ELSE UNCHANGED <<db, writer, pending>>
  /\ wk' = [wk EXCEPT ![w] = [@ EXCEPT !.pc = "fallback"]]
  /\ UNCHANGED <<clock, rd, fallback, imp, runvars, lockvars, scrapervars>>

\* write_fallback(); return counts
WriteFallback(w) ==
  /\ wk[w].pc = "fallback"
  /\ fallback' = catalog_of(visible(db, pending, writer))
  /\ wk' = [wk EXCEPT ![w] = [@ EXCEPT !.pc = "done"]]
  /\ UNCHANGED <<db, pending, writer, clock, rd, imp, runvars, lockvars, scrapervars>>

\* ---------------------------------------------------------- read_catalog steps
\* SELECT * FROM hybrids ORDER BY crop, name
ReadHybrids ==
  /\ rd.pc = "idle"
  /\ LET v == visible(db, pending, writer)
     IN rd' = [pc |-> IF v.hybrids = << >> THEN "return" ELSE "attrs",
               hybs |-> [n \in DOMAIN ordered_ids(v) |->
                           [id |-> ordered_ids(v)[n], row |-> v.hybrids[ordered_ids(v)[n]]]],
               i |-> 1, out |-> << >>]
  /\ UNCHANGED <<db, pending, writer, clock, wk, fallback, imp, runvars, lockvars, scrapervars>>

\* one turn of: for h in hybrids: SELECT ... FROM attributes WHERE hybrid_id=?
\* (during: where the holder of the write transaction stood when the SELECT ran)
ReadAttributes ==
  /\ rd.pc = "attrs"
  /\ LET v == visible(db, pending, writer)
         h == rd.hybs[rd.i]
     IN rd' = [rd EXCEPT
                 !.out = Append(@, [id |-> h.id, row |-> h.row,
                                    attributes |-> select_attributes(v, h.id),
                                    during |-> IF writer = "none" THEN "none"
                                               ELSE wk[writer].pc]),
                 !.i = @ + 1,
                 !.pc = IF rd.i < Len(rd.hybs) THEN "attrs" ELSE "return"]
  /\ UNCHANGED <<db, pending, writer, clock, wk, fallback, imp, runvars, lockvars, scrapervars>>

\* return {"crops": out}: the frame is gone
ReadReturn ==
  /\ rd.pc = "return"
  /\ rd' = IdleReader
  /\ UNCHANGED <<db, pending, writer, clock, wk, fallback, imp, runvars, lockvars, scrapervars>>

Next ==
  \/ \E w \in Workers :
       \/ Call(w)
       \/ SelectExisting(w)
       \/ InsertHybrid(w)
       \/ Busy(w)
       \/ Classify(w)
       \/ DeleteAttributes(w)
       \/ InsertAttribute(w)
       \/ Commit(w)
       \/ WriteFallback(w)
  \/ ReadHybrids
  \/ ReadAttributes
  \/ ReadReturn

Spec == Init /\ [][Next]_vars

\* a caller enters upsert_items(items) with a batch that cannot be stored
CallFailing(w) ==
  /\ wk[w].pc = "idle"
  /\ \E b \in FailingBatches : wk' = [wk EXCEPT ![w] = enter(b)]
  /\ UNCHANGED <<db, pending, writer, clock, rd, fallback, imp, runvars, lockvars, scrapervars>>

NextFailing == Next \/ CallFailing("w1")

SpecFailing == Init /\ [][NextFailing]_vars

\* ------------------------------------------------- manual imports, one by one
\* POST /api/catalog/manual-import served while no other connection writes:
\* upsert_items(payload.items), which ends in write_fallback()
ManualImport ==
  \E b \in ImportBatches :
    /\ clock + Len(b) <= MaxTicks
    /\ LET r == upsert_items(db, b, clock)
       IN /\ db' = r.store
          /\ clock' = r.clock
          /\ fallback' = IF r.ok THEN catalog_of(r.store) ELSE fallback
          /\ imp' = [served |-> TRUE, batch |-> b, ok |-> r.ok, counts |-> r.counts,
                     prev |-> imp.batch, prev_ok |-> imp.served /\ imp.ok,
                     before |-> db.attributes, hybrids_before |-> db.hybrids]
    /\ UNCHANGED <<pending, writer, wk, rd, runvars, lockvars, scrapervars>>

NextImport == ManualImport

SpecImport == Init /\ [][NextImport]_vars

\* ------------------------------------------------------- link discovery
\* the state outside the scraper, untouched by a scraper call
Offline ==
  /\ db = EmptyDb /\ pending = EmptyDb /\ writer = "none" /\ clock = 0
  /\ wk = [w \in Workers |-> IdleFrame] /\ rd = IdleReader /\ fallback = << >>
  /\ imp = NoImport
  /\ RUNS = [j \in Jobs |-> NoRun] /\ runs_table = [j \in Jobs |-> NoRow]
  /\ job = [j \in Jobs |-> IdleJob]
  /\ LockIdle

offlinevars ==
  <<db, pending, writer, clock, wk, rd, fallback, imp, runvars, lockvars>>

\* discover_catalog_pages() on the links of the start page
DiscoverCatalogPages ==
  /\ disc.pc = "page"
  /\ disc' = [disc EXCEPT !.pc = "catalogs", !.found = catalog_links(disc.links)]
  /\ UNCHANGED <<offlinevars, crawl, page>>

\* discover_product_pages(catalog_url) on the links of a page
DiscoverProductPages ==
  /\ disc.pc = "page"
  /\ \E c \in CatalogPaths :
       disc' = [disc EXCEPT !.pc = "products", !.catalog = c,
                            !.found = product_links(disc.links, c)]
  /\ UNCHANGED <<offlinevars, crawl, page>>

NextDiscover == DiscoverCatalogPages \/ DiscoverProductPages

InitDiscover ==
  /\ Offline
  /\ \E links \in LinkPages : disc = [IdleDisc EXCEPT !.links = links]
  /\ crawl = IdleCrawl
  /\ page = IdlePage

SpecDiscover == InitDiscover /\ [][NextDiscover]_vars

\* ------------------------------------------------------------ the crawl
\* catalog_urls = self.discover_catalog_pages(): the start page is fetched
CrawlCatalogPages ==
  /\ crawl.pc = "start"
  /\ crawl' = IF crawl.site.start = "fail" THEN [crawl EXCEPT !.pc = "raised"]
              ELSE [crawl EXCEPT !.pc = "catalogs",
                      !.catalog_urls = sorted_urls(DOMAIN crawl.site.links),
                      !.todo = sorted_urls(DOMAIN crawl.site.links)]
  /\ UNCHANGED <<offlinevars, disc, page>>

\* for catalog_url in catalog_urls:
\*   product_urls.update(self.discover_product_pages(catalog_url))
\* and, after the last one, sorted(product_urls) for the second loop
CrawlProductPages ==
  /\ crawl.pc = "catalogs"
  /\ crawl' = IF crawl.todo = << >>
              THEN [crawl EXCEPT !.pc = "products",
                                 !.todo = sorted_urls(crawl.product_urls)]
              ELSE [crawl EXCEPT !.todo = Tail(@),
                      !.product_urls = @ \cup crawl.site.links[Head(crawl.todo)]]
  /\ UNCHANGED <<offlinevars, disc, page>>

\* for product_url in sorted(product_urls): item = self.parse_product(...);
\* if item.get("name"): items.append(item)
CrawlParse ==
  /\ crawl.pc = "products" /\ crawl.todo # << >>
  /\ LET url == Head(crawl.todo)
         item == named_item(crawl.site, url)
     IN crawl' = IF crawl.site.pages[url] = "fail"
                 THEN [crawl EXCEPT !.pc = "raised", !.fetched = Append(@, url)]
                 ELSE [crawl EXCEPT !.todo = Tail(@), !.fetched = Append(@, url),
                         !.items = IF truthy(item.name) THEN Append(@, item) ELSE @]
  /\ UNCHANGED <<offlinevars, disc, page>>

\* return {"catalog_urls": ..., "product_urls": sorted(product_urls), "items": items}
CrawlReturn ==
  /\ crawl.pc = "products" /\ crawl.todo = << >>
  /\ crawl' = [crawl EXCEPT !.pc = "returned",
                 !.result = [catalog_urls |-> crawl.catalog_urls,
                             product_urls |-> sorted_urls(crawl.product_urls),
                             items |-> crawl.items]]
  /\ UNCHANGED <<offlinevars, disc, page>>

NextCrawl == CrawlCatalogPages \/ CrawlProductPages \/ CrawlParse \/ CrawlReturn

InitCrawl ==
  /\ Offline
  /\ disc = IdleDisc
  /\ \E site \in CrawlSites : crawl = [IdleCrawl EXCEPT !.pc = "start", !.site = site]
  /\ page = IdlePage

SpecCrawl == InitCrawl /\ [][NextCrawl]_vars

\* ------------------------------------------------------- product pages
\* item = self.parse_product(product_url), the page fetched
ParseProduct ==
  /\ page.pc = "fetched"
  /\ page' = [page EXCEPT !.pc = "parsed", !.item = parse_page(page.url, page.html)]
  /\ UNCHANGED <<offlinevars, disc, crawl>>

InitParse ==
  /\ Offline
  /\ disc = IdleDisc
  /\ crawl = IdleCrawl
  /\ \E html \in ParsePages : page = [IdlePage EXCEPT !.pc = "fetched", !.html = html]

SpecParse == InitParse /\ [][ParseProduct]_vars

\* ------------------------------------------------------------ update jobs
storevars == <<pending, writer, wk, rd, imp>>

\* the statements of run_update change the run through the reference in RUNS
SetRun(j, run) == RUNS' = [RUNS EXCEPT ![j] = run]

Goto(j, pc) == job' = [job EXCEPT ![j] = [@ EXCEPT !.pc = pc]]

\* persist_run(job_id, run) of the run as it is after this step
Persist(j) == runs_table' = [runs_table EXCEPT ![j] = run_row(RUNS'[j])]

\* log(msg) as the statement at pc, then on to next
Log(j, pc, message, src, text, next) ==
  /\ job[j].pc = pc
  /\ clock' = clock + 1
  /\ SetRun(j, log_append(RUNS[j], clock + 1, message, src, text))
  /\ Persist(j)
  /\ Goto(j, next)
  /\ UNCHANGED <<db, fallback, storevars, lockvars, scrapervars>>

\* a statement at pc that changes only the in-memory run
Mutate(j, pc, run, next) ==
  /\ job[j].pc = pc
  /\ SetRun(j, run)
  /\ Goto(j, next)
  /\ UNCHANGED <<db, clock, fallback, runs_table, storevars, lockvars, scrapervars>>

\* a run that reconciles whatever the request says
always_upsert(req) == "upsert"

\* if req.dry_run: the log line and the parsed count, else upsert_items
after_discovery(req) == IF req.dry_run THEN "log_dry_run" ELSE "upsert"

\* "for src in enabled_sources" with sources left, or the statements after the loop
loop_or_finish(f) == IF f.enabled = << >> THEN "fin_status" ELSE "source"

\* POST /api/catalog/update: the run is registered, persisted, its thread started
PostUpdate(j) ==
  /\ job[j].pc = "none"
  /\ \E req \in Requests :
       job' = [job EXCEPT ![j] = [IdleJob EXCEPT !.pc = "lookup", !.req = req]]
  /\ clock' = clock + 1
  /\ SetRun(j, new_run(clock + 1))
  /\ access' = accessed("register", RequestThread)
  /\ Persist(j)
  /\ UNCHANGED <<db, fallback, storevars, LOCK, poll, scrapervars>>

\* with LOCK: the thread of the job takes the lock when it is free
AcquireLock(j) ==
  /\ job[j].pc = "lookup"
  /\ LOCK = "free"
  /\ LOCK' = j
  /\ Goto(j, "locked")
  /\ UNCHANGED <<db, clock, fallback, RUNS, runs_table, storevars, access, poll, scrapervars>>

\* run = RUNS[job_id]
LookupRun(j) ==
  /\ job[j].pc = "locked"
  /\ RUNS[j].status # "none"
  /\ access' = accessed("lookup", j)
  /\ Goto(j, "unlock")
  /\ UNCHANGED <<db, clock, fallback, RUNS, runs_table, storevars, LOCK, poll, scrapervars>>

\* the end of the with block
ReleaseLock(j) ==
  /\ job[j].pc = "unlock"
  /\ LOCK' = "free"
  /\ Goto(j, "log_start")
  /\ UNCHANGED <<db, clock, fallback, RUNS, runs_table, storevars, access, poll, scrapervars>>

\* GET /api/catalog/update/{job_id}: run = RUNS.get(job_id); the run when it is
\* registered, else the row of the runs table, else "not_found"
GetUpdate(j) ==
  /\ access' = accessed("get", RequestThread)
  /\ poll' = get_update(RUNS[j], runs_table[j])
  /\ UNCHANGED <<db, clock, fallback, RUNS, runs_table, job, storevars, LOCK, scrapervars>>

\* log("Starting catalog sync job."); enabled_sources = ...; disabled_sources = ...
LogStarting(j) ==
  /\ job[j].pc = "log_start"
  /\ clock' = clock + 1
  /\ SetRun(j, log_append(RUNS[j], clock + 1, "Starting catalog sync job.", "", ""))
  /\ Persist(j)
  /\ job' = [job EXCEPT ![j] =
               [@ EXCEPT !.enabled = enabled_sources(job[j].req),
                         !.disabled = disabled_sources(job[j].req),
                         !.pc = IF disabled_sources(job[j].req) # << >> THEN "disabled"
                                ELSE IF enabled_sources(job[j].req) = << >> THEN "none_status"
                                ELSE "source"]]
  /\ UNCHANGED <<db, fallback, storevars, lockvars, scrapervars>>

\* for src in disabled_sources: log(f"Source {src.id} disabled: {src.reason}")
LogDisabled(j) ==
  /\ job[j].pc = "disabled"
  /\ clock' = clock + 1
  /\ SetRun(j, log_append(RUNS[j], clock + 1, "Source disabled",
                          Head(job[j].disabled).id, Head(job[j].disabled).reason))
  /\ Persist(j)
  /\ job' = [job EXCEPT ![j] =
               [@ EXCEPT !.disabled = Tail(@),
                         !.pc = IF Tail(job[j].disabled) # << >> THEN "disabled"
                                ELSE IF job[j].enabled = << >> THEN "none_status"
                                ELSE "source"]]
  /\ UNCHANGED <<db, fallback, storevars, lockvars, scrapervars>>

\* if not enabled_sources: run["status"] = "completed"
NoneStatus(j) ==
  Mutate(j, "none_status", [RUNS[j] EXCEPT !.status = "completed"], "none_finished")

\* run["finished_at"] = utc_now()
NoneFinished(j) ==
  /\ job[j].pc = "none_finished"
  /\ clock' = clock + 1
  /\ SetRun(j, [RUNS[j] EXCEPT !.finished_at = clock + 1])
  /\ Goto(j, "none_log")
  /\ UNCHANGED <<db, fallback, runs_table, storevars, lockvars, scrapervars>>

\* log("No enabled sources. Nothing fetched.")
NoneLog(j) ==
  Log(j, "none_log", "No enabled sources. Nothing fetched.", "", "", "none_persist")

\* persist_run(job_id, run)
NonePersist(j) ==
  /\ job[j].pc = "none_persist"
  /\ runs_table' = [runs_table EXCEPT ![j] = run_row(RUNS[j])]
  /\ Goto(j, "none_fallback")
  /\ UNCHANGED <<db, clock, fallback, RUNS, storevars, lockvars, scrapervars>>

\* write_fallback(); return
NoneFallback(j) ==
  /\ job[j].pc = "none_fallback"
  /\ fallback' = catalog_of(db)
  /\ Goto(j, "done")
  /\ UNCHANGED <<db, clock, RUNS, runs_table, storevars, lockvars, scrapervars>>

\* for src in enabled_sources: a source other than bayer_ua_dekalb is logged and
\* skipped; for bayer_ua_dekalb the try block is entered
NextSource(j) ==
  /\ job[j].pc = "source"
  /\ LET src == Head(job[j].enabled)
         f == [job[j] EXCEPT !.enabled = Tail(@), !.src = src.id]
     IN IF src.id # "bayer_ua_dekalb"
        THEN /\ clock' = clock + 1
             /\ SetRun(j, log_append(RUNS[j], clock + 1,
                                     "Source currently has no scraper implementation.",
                                     src.id, ""))
             /\ Persist(j)
             /\ job' = [job EXCEPT ![j] = [f EXCEPT !.pc = loop_or_finish(f)]]
        ELSE /\ job' = [job EXCEPT ![j] = [f EXCEPT !.pc = "log_fetching"]]
             /\ UNCHANGED <<clock, RUNS, runs_table>>
  /\ UNCHANGED <<db, fallback, storevars, lockvars, scrapervars>>

\* log("Fetching bayer_ua_dekalb start page.")
LogFetching(j) ==
  Log(j, "log_fetching", "Fetching bayer_ua_dekalb start page.", "", "", "scrape")

\* scraper = BayerUADekalbScraper(); result = scraper.run(), on the site as it is
Scrape(j) ==
  /\ job[j].pc = "scrape"
  /\ \E site \in Sites :
       LET result == scraper_run(site)
       IN job' = [job EXCEPT ![j] =
                    [@ EXCEPT !.site = site, !.result = result, !.exc = result.exc,
                              !.pc = IF result.ok THEN "count_discovered" ELSE handler]]
  /\ UNCHANGED <<db, clock, fallback, RUNS, runs_table, storevars, lockvars, scrapervars>>

\* run["counts"]["discovered"] += len(result["product_urls"])
CountDiscovered(j) ==
  Mutate(j, "count_discovered",
         [RUNS[j] EXCEPT !.counts.discovered = @ + Len(job[j].result.product_urls)],
         "log_catalogs")

\* log(f"Discovered catalog pages: {len(result['catalog_urls'])}")
LogCatalogs(j) ==
  Log(j, "log_catalogs", "Discovered catalog pages", "",
      <<Len(job[j].result.catalog_urls)>>, "log_products")

\* log(f"Discovered product pages: {len(result['product_urls'])}")
LogProducts(j) ==
  Log(j, "log_products", "Discovered product pages", "",
      <<Len(job[j].result.product_urls)>>, after_discovery(job[j].req))

\* if req.dry_run: log("Dry-run enabled. Skipping database writes.")
LogDryRun(j) ==
  Log(j, "log_dry_run", "Dry-run enabled. Skipping database writes.", "", "",
      "dry_parsed")

\* run["counts"]["parsed"] += len(result["items"]); continue
DryParsed(j) ==
  Mutate(j, "dry_parsed",
         [RUNS[j] EXCEPT !.counts.parsed = @ + Len(job[j].result.items)],
         loop_or_finish(job[j]))

\* counts = upsert_items(result["items"]): the transaction and write_fallback()
Upsert(j) ==
  /\ job[j].pc = "upsert"
  /\ \E r \in {upsert_items(db, job[j].result.items, clock)} :
        /\ db' = r.store
        /\ clock' = r.clock
        /\ fallback' = catalog_of(r.store)
        /\ job' = [job EXCEPT ![j] = [@ EXCEPT !.counts = r.counts, !.pc = "add_counts"]]
  /\ UNCHANGED <<RUNS, runs_table, storevars, lockvars, scrapervars>>

\* upsert_items raises (sqlite3.OperationalError: the database is locked by
\* another connection or cannot be written): the with block rolls back
UpsertRaises(j) ==
  /\ job[j].pc = "upsert"
  /\ job' = [job EXCEPT ![j] = [@ EXCEPT !.exc = "OperationalError", !.pc = handler]]
  /\ UNCHANGED <<db, clock, fallback, RUNS, runs_table, storevars, lockvars, scrapervars>>

\* for k, v in counts.items(): run["counts"][k] += v
AddCounts(j) ==
  Mutate(j, "add_counts",
         [RUNS[j] EXCEPT !.counts.added = @ + job[j].counts.added,
                         !.counts.updated = @ + job[j].counts.updated,
                         !.counts.unchanged = @ + job[j].counts.unchanged],
         "add_parsed")

\* run["counts"]["parsed"] += len(result["items"])
AddParsed(j) ==
  Mutate(j, "add_parsed",
         [RUNS[j] EXCEPT !.counts.parsed = @ + Len(job[j].result.items)],
         "log_parsed")

\* log(f"Parsed products: {len(result['items'])}")
LogParsed(j) ==
  Log(j, "log_parsed", "Parsed products", "", <<Len(job[j].result.items)>>,
      "log_changes")

\* log("DB changes: added=... updated=... unchanged=...")
LogChanges(j) ==
  Log(j, "log_changes", "DB changes", "",
      <<job[j].counts.added, job[j].counts.updated, job[j].counts.unchanged>>,
      loop_or_finish(job[j]))

\* except Exception as exc: run["counts"]["errors"] += 1
CountError(j) ==
  Mutate(j, "except", [RUNS[j] EXCEPT !.counts = count_error(@)], "log_failed")

\* log(f"Source {src.id} failed: {exc}")
LogFailed(j) ==
  Log(j, "log_failed", "Source failed", job[j].src, job[j].exc, loop_or_finish(job[j]))

\* run["status"] = "completed"
FinStatus(j) ==
  Mutate(j, "fin_status", [RUNS[j] EXCEPT !.status = "completed"], "fin_finished")

\* run["finished_at"] = utc_now()
FinFinished(j) ==
  /\ job[j].pc = "fin_finished"
  /\ clock' = clock + 1
  /\ SetRun(j, [RUNS[j] EXCEPT !.finished_at = clock + 1])
  /\ Goto(j, "fin_persist")
  /\ UNCHANGED <<db, fallback, runs_table, storevars, lockvars, scrapervars>>

\* persist_run(job_id, run)
FinPersist(j) ==
  /\ job[j].pc = "fin_persist"
  /\ runs_table' = [runs_table EXCEPT ![j] = run_row(RUNS[j])]
  /\ Goto(j, "fin_fallback")
  /\ UNCHANGED <<db, clock, fallback, RUNS, storevars, lockvars, scrapervars>>

\* write_fallback(); the thread ends
FinFallback(j) ==
  /\ job[j].pc = "fin_fallback"
  /\ fallback' = catalog_of(db)
  /\ Goto(j, "done")
  /\ UNCHANGED <<db, clock, RUNS, runs_table, storevars, lockvars, scrapervars>>

\* one step of the thread that runs run_update(job_id, req)
Thread(j) ==
  \/ AcquireLock(j)
  \/ LookupRun(j)
  \/ ReleaseLock(j)
  \/ LogStarting(j)
  \/ LogDisabled(j)
  \/ NoneStatus(j)
  \/ NoneFinished(j)
  \/ NoneLog(j)
  \/ NonePersist(j)
  \/ NoneFallback(j)
  \/ NextSource(j)
  \/ LogFetching(j)
  \/ Scrape(j)
  \/ CountDiscovered(j)
  \/ LogCatalogs(j)
  \/ LogProducts(j)
  \/ LogDryRun(j)
  \/ DryParsed(j)
  \/ UpsertRaises(j)
  \/ Upsert(j)
  \/ AddCounts(j)
  \/ AddParsed(j)
  \/ LogParsed(j)
  \/ LogChanges(j)
  \/ CountError(j)
  \/ LogFailed(j)
  \/ FinStatus(j)
  \/ FinFinished(j)
  \/ FinPersist(j)
  \/ FinFallback(j)

NextRun == \E j \in Jobs : PostUpdate(j) \/ Thread(j)

\* the catalog the job finds: empty, or what earlier reconciliations left
SeedBatches ==
  { << >>,
    <<parse_product([NoSite EXCEPT !.pages["u1"] = "v1"], "u1")>>,
    <<parse_product([NoSite EXCEPT !.pages["u1"] = "v2"], "u1"),
      parse_product([NoSite EXCEPT !.pages["u2"] = "v1"], "u2")>> }

InitRun ==
  /\ \E b \in SeedBatches :
       /\ db = upsert_items(EmptyDb, b, 0).store
       /\ clock = upsert_items(EmptyDb, b, 0).clock
       /\ fallback = catalog_of(upsert_items(EmptyDb, b, 0).store)
  /\ pending = EmptyDb
  /\ writer = "none"
  /\ wk = [w \in Workers |-> IdleFrame]
  /\ rd = IdleReader
  /\ imp = NoImport
  /\ RUNS = [j \in Jobs |-> NoRun]
  /\ runs_table = [j \in Jobs |-> NoRow]
  /\ job = [j \in Jobs |-> IdleJob]
  /\ LockIdle
  /\ ScraperIdle

SpecRun == InitRun /\ [][NextRun]_vars

\* runs with a client that polls them
NextPoll == NextRun \/ \E j \in Jobs : GetUpdate(j)

SpecPoll == InitRun /\ [][NextPoll]_vars

\* the operating system schedules the job's thread: a step it can take is taken
LiveSpecRun == SpecRun /\ \A j \in Jobs : WF_vars(Thread(j))

\* ------------------------------------------------------------------ claims
Unique(view) ==
  \A i, j \in DOMAIN view.hybrids :
    ( /\ view.hybrids[i].name = view.hybrids[j].name
      /\ view.hybrids[i].market = view.hybrids[j].market
      /\ view.hybrids[i].source_url = view.hybrids[j].source_url ) => i = j

\* the attribute rows an item leaves behind when it is written at time t
stored_form(item, t) ==
  [j \in DOMAIN item.attributes |->
     columns(attribute_row(0, item, item.attributes[j], t))]

\* (key, value as text, evidence with null read as "") of an item and of stored rows
ItemTriples(item) ==
  { <<item.attributes[j].key, str(dict_get(item.attributes[j].value, PyNone)),
      IF truthy(item.attributes[j].evidence) THEN item.attributes[j].evidence.v ELSE "">> :
      j \in DOMAIN item.attributes }

RowTriples(rows) ==
  { <<rows[j].key, str(rows[j].value),
      IF truthy(rows[j].evidence) THEN rows[j].evidence.v ELSE "">> : j \in DOMAIN rows }

\* C1: reconciling a batch and then the identical batch again, nothing written
\* in between, returns added=0, updated=0, unchanged=N on the second pass and
\* leaves every stored attribute row as it was before the second pass.
C1_ReplayIsAllUnchanged ==
  (imp.served /\ imp.ok /\ imp.prev_ok /\ imp.prev = imp.batch) =>
    /\ imp.counts = [added |-> 0, updated |-> 0, unchanged |-> Len(imp.batch)]
    /\ db.attributes = imp.before

\* C2: in the committed store and in every open transaction no two hybrids rows
\* share (name, market, source_url), and the id an item resolves to is the row
\* with the item's key: an existing row when there was one, also when it was
\* inserted by another worker after this worker's lookup.
C2_UniqueIdentity ==
  /\ Unique(db)
  /\ Unique(pending)
  /\ \A w \in Workers :
       wk[w].pc \in {"classify", "delete", "insattr"} =>
         /\ writer = w
         /\ wk[w].hybrid_id \in DOMAIN pending.hybrids
         /\ same_key(pending.hybrids[wk[w].hybrid_id], Item(w))
         /\ (wk[w].rowcount = 1 => wk[w].hybrid_id = Len(pending.hybrids))
         /\ (wk[w].had_existing => wk[w].rowcount = 0)

\* the ignored-insert race: the lookup found nothing, the INSERT was ignored
C2_Witness ==
  \E w \in Workers :
    wk[w].pc = "classify" /\ ~wk[w].had_existing /\ wk[w].rowcount = 0

\* C3: an item whose hybrid existed and whose (key, value, evidence) set differs
\* from the stored one is counted as updated, once, and when its processing
\* ends the hybrid's stored attributes are exactly the item's attribute list.
C3_ChangeReplacesWholesale ==
  [][\A w \in Workers :
       LET f == wk[w]
           g == wk'[w]
       IN /\ ( /\ f.pc = "classify" /\ g.pc # "classify"
               /\ f.had_existing
               /\ ItemTriples(Item(w)) # RowTriples(select_kve(pending, f.hybrid_id)) )
             => ( /\ g.pc = "delete"
                  /\ g.counts = [f.counts EXCEPT !.updated = @ + 1] )
          /\ ( f.pc \in {"delete", "insattr"} /\ g.pc # "failed" )
             => g.counts = f.counts
          /\ ( f.pc \in {"delete", "insattr"} /\ g.idx = f.idx + 1 )
             => select_attributes(pending', f.hybrid_id) = stored_form(Item(w), f.now)
    ]_vars

C3_Witness ==
  \E w \in Workers :
    /\ wk[w].pc = "commit" /\ wk[w].counts.updated = 1 /\ wk[w].had_existing
    /\ wk[w].existing_rows # << >>
    /\ select_attributes(pending, wk[w].hybrid_id)
         = stored_form(wk[w].batch[Len(wk[w].batch)], wk[w].now)

\* C4: an item whose hybrid existed and whose fingerprint equals the stored one
\* is counted as unchanged; the step sets that hybrid's last_seen to now and
\* changes nothing else in the store; and within a transaction last_updated of
\* an existing row changes only in the step that starts an attribute replacement.
C4_UnchangedTouchesLastSeenOnly ==
  [][\A w \in Workers :
       LET f == wk[w]
           g == wk'[w]
       IN /\ ( /\ f.pc = "classify" /\ g.pc # "classify"
               /\ f.had_existing
               /\ new_fingerprint(Item(w).attributes)
                    = existing_fingerprint(select_kve(pending, f.hybrid_id)) )
             => ( /\ g.counts = [f.counts EXCEPT !.unchanged = @ + 1]
                  /\ pending'.attributes = pending.attributes
                  /\ pending'.hybrids =
                       [pending.hybrids EXCEPT ![f.hybrid_id].last_seen = f.now] )
          /\ ( writer = w /\ writer' = w )
             => \A h \in DOMAIN pending.hybrids :
                  pending'.hybrids[h].last_updated # pending.hybrids[h].last_updated
                    => ( f.pc = "classify" /\ g.pc = "delete" /\ f.hybrid_id = h )
    ]_vars

C4_Witness ==
  \E w \in Workers :
    /\ wk[w].pc = "commit" /\ wk[w].counts.unchanged = 1 /\ wk[w].had_existing
    /\ pending.hybrids[wk[w].hybrid_id].last_seen = wk[w].now
    /\ pending.hybrids[wk[w].hybrid_id].last_updated < wk[w].now

\* C8: every attribute set a reader gets for a hybrid, and every set a worker
\* reads for its fingerprint, is the complete attribute list of one item
\* reconciled for that hybrid, never a set from the middle of a replacement.
CompleteSet(row, attrs) ==
  \E w \in Workers : \E i \in DOMAIN wk[w].batch : \E t \in 1..clock :
    /\ same_key(row, wk[w].batch[i])
    /\ attrs = stored_form(wk[w].batch[i], t)

C8_ReadersSeeCompleteSets ==
  /\ \A n \in DOMAIN rd.out : CompleteSet(rd.out[n].row, rd.out[n].attributes)
  /\ \A w \in Workers :
       wk[w].pc \in {"delete", "insattr"} =>
         \/ wk[w].existing_rows = << >> /\ wk[w].rowcount = 1
         \/ \E v \in Workers : \E i \in DOMAIN wk[v].batch :
              /\ same_key(wk[v].batch[i], Item(w))
              /\ RowTriples(wk[w].existing_rows) = ItemTriples(wk[v].batch[i])
              /\ Len(wk[w].existing_rows) = Len(wk[v].batch[i].attributes)

\* a read_catalog SELECT ran while a replacement stood between DELETE and the
\* last INSERT
C8_Witness ==
  \E n \in DOMAIN rd.out : rd.out[n].during = "insattr" /\ rd.out[n].attributes # << >>


\* ----------------------------------------------------------- claims on runs
Started(j) == job[j].pc # "none"

Done(j) == job[j].pc = "done"

Completed(j) ==
  /\ RUNS[j].status = "completed" /\ RUNS[j].finished_at # 0
  /\ runs_table[j].status = "completed" /\ runs_table[j].finished_at # 0

LogEntries(j, message) ==
  { i \in DOMAIN RUNS[j].step_logs : RUNS[j].step_logs[i].message = message }

EntriesAbout(j, id) ==
  { i \in DOMAIN RUNS[j].step_logs : RUNS[j].step_logs[i].src = id }

NothingReconciled(counts) ==
  counts.added = 0 /\ counts.updated = 0 /\ counts.unchanged = 0

C6_FailedPageLosesOnlyItsItem ==
  \A j \in Jobs : \A u, v \in Urls :
    ( /\ job[j].site.start = "ok" /\ job[j].site.catalog = "ok"
      /\ job[j].site.pages[u] = "fail"
      /\ job[j].site.pages[v] \in {"v1", "v2"} )
    => /\ job[j].result.ok
       /\ \E i \in DOMAIN job[j].result.items :
            job[j].result.items[i] = parse_product(job[j].site, v)
       /\ (Done(j) /\ ~job[j].req.dry_run /\ RUNS[j].counts.errors = 0)
            => \E h \in DOMAIN db.hybrids : db.hybrids[h].source_url = v

ZeroSource(req) ==
  \A i \in DOMAIN Registry :
    Registry[i].id \in req.sources => ~Registry[i].enabled

\* C9: a run whose request names no enabled source (nothing, only disabled
\* sources, only unknown ids) reaches "completed" with discovered, parsed,
\* added, updated and unchanged all 0 and with the log line "No enabled
\* sources. Nothing fetched.", and no step of it changes a hybrid or an
\* attribute row.
C9_ZeroSourceRunCompletes ==
  /\ [](\A j \in Jobs :
          (Started(j) /\ ZeroSource(job[j].req)) =>
            /\ NothingReconciled(RUNS[j].counts)
            /\ RUNS[j].counts.discovered = 0 /\ RUNS[j].counts.parsed = 0
            /\ Done(j) => /\ Completed(j)
                          /\ LogEntries(j, "No enabled sources. Nothing fetched.") # {}
                          /\ fallback = catalog_of(db))
  /\ [][(\E j \in Jobs : Started(j) /\ ZeroSource(job[j].req)) => db' = db]_vars
  /\ \A j \in Jobs :
       (Started(j) /\ ZeroSource(job[j].req)) ~> (Done(j) /\ Completed(j))

\* a finished run over a catalog with rows whose request named only an
\* unknown id
C9_Witness ==
  \E j \in Jobs :
    /\ Done(j) /\ job[j].req.sources = {"acme_seeds"}
    /\ db.hybrids # << >> /\ db.attributes # << >>
    /\ LogEntries(j, "No enabled sources. Nothing fetched.") # {}

RegistryIds == { Registry[i].id : i \in DOMAIN Registry }

DisabledIds == { Registry[i].id : i \in { k \in DOMAIN Registry : ~Registry[k].enabled } }

reason_of(id) == Registry[CHOOSE i \in DOMAIN Registry : Registry[i].id = id].reason

\* C10 as stated: every requested source id that is disabled in the registry
\* or not in the registry has a log line about it when the run is over.
C10_DisabledAndUnknownLogged ==
  \A j \in Jobs : \A id \in job[j].req.sources :
    (Done(j) /\ (id \in DisabledIds \/ id \notin RegistryIds)) =>
      EntriesAbout(j, id) # {}

\* C10: every requested source that the registry has disabled gets exactly
\* one log line, with its id and its reason; a requested id that is not in
\* the registry gets no log line; no pipeline runs for either; and the run
\* completes.
C10_DisabledLoggedUnknownSilent ==
  /\ [](\A j \in Jobs :
          /\ \A id \in job[j].req.sources :
               /\ (Done(j) /\ id \in DisabledIds) =>
                    /\ Cardinality(EntriesAbout(j, id)) = 1
                    /\ \A i \in EntriesAbout(j, id) :
                         /\ RUNS[j].step_logs[i].message = "Source disabled"
                         /\ RUNS[j].step_logs[i].text = reason_of(id)
               /\ id \notin RegistryIds => EntriesAbout(j, id) = {}
          /\ job[j].src \notin DisabledIds
          /\ job[j].src \in RegistryIds \cup {""})
  /\ \A j \in Jobs : Started(j) ~> (Done(j) /\ Completed(j))

\* a finished run whose request named a disabled source and an unknown id
C10_Witness ==
  \E j \in Jobs :
    /\ Done(j) /\ RUNS[j].status = "completed"
    /\ {"bayer_us_dekalb", "acme_seeds"} \subseteq job[j].req.sources
    /\ LogEntries(j, "Source disabled") # {}


\* --------------------------------------------------- claims on discovery
CatalogRoot == <<Slash, "Products", Slash, "Dekalb">>

\* the path lies under /Products/Dekalb/
UnderCatalogSegment(path) == startswith(path, CatalogRoot \o <<Slash>>)

\* the path is p, with or without trailing slashes
SameUpToSlash(path, p) == rstrip(path) = rstrip(p)

\* C11: discover_catalog_pages keeps a link exactly when it is on the site's
\* host, its path lies under /Products/Dekalb/, is not the catalog root, and
\* has exactly 3 slashes; discover_product_pages keeps a link exactly when it
\* is on the site's host, its path starts with the catalog page's path
\* followed by "/", is not that prefix itself, and has at least 4 slashes.
\* What is kept is the link without its query.
C11_DepthRule ==
  /\ disc.pc = "catalogs" =>
       \A l \in disc.links :
         (without_query(l) \in disc.found) <=>
           \E k \in disc.links :
             /\ without_query(k) = without_query(l)
             /\ k.host = Host
             /\ UnderCatalogSegment(k.path)
             /\ ~SameUpToSlash(k.path, CatalogRoot)
             /\ count(k.path, Slash) = 3
  /\ disc.pc = "products" =>
       \A l \in disc.links :
         (without_query(l) \in disc.found) <=>
           \E k \in disc.links :
             /\ without_query(k) = without_query(l)
             /\ k.host = Host
             /\ startswith(k.path, rstrip(disc.catalog) \o <<Slash>>)
             /\ ~SameUpToSlash(k.path, disc.catalog)
             /\ count(k.path, Slash) >= 4
  /\ disc.pc # "page" =>
       disc.found \subseteq { without_query(l) : l \in disc.links }

\* the page with links of depth 2, 3, 4 and 5 and of another host, after
\* either discovery
C11_Witness ==
  /\ disc.links = MixedLinks
  /\ \/ disc.pc = "catalogs" /\ disc.found = {[host |-> Host, path |-> pCorn]}
     \/ /\ disc.pc = "products" /\ disc.catalog = pCorn
        /\ Cardinality(disc.found) = 2


\* ------------------------------------------------------ claims on the crawl
Ascending(urls) ==
  \A i, k \in DOMAIN urls :
    i < k => (CHOOSE n \in DOMAIN UrlOrder : UrlOrder[n] = urls[i])
               < (CHOOSE n \in DOMAIN UrlOrder : UrlOrder[n] = urls[k])

LinkedPages(site) == UNION { site.links[c] : c \in DOMAIN site.links }

\* C12: run() returns product_urls as the union of the product pages of all
\* catalog pages, without duplicates, in ascending order; it parses the pages
\* in exactly that order; the items are exactly the pages with a non-empty
\* name, in ascending order of source_url; no item with an empty or absent
\* name is ever in the list; so the result is a function of the site.
C12_DeterministicCrawlOrder ==
  /\ \A i \in DOMAIN crawl.items :
       crawl.items[i].name.t = "str" /\ crawl.items[i].name.v # ""
  /\ Ascending(crawl.fetched)
  /\ crawl.pc = "returned" =>
       /\ Ascending(crawl.result.product_urls)
       /\ { crawl.result.product_urls[i] : i \in DOMAIN crawl.result.product_urls }
            = LinkedPages(crawl.site)
       /\ crawl.fetched = crawl.result.product_urls
       /\ Ascending([i \in DOMAIN crawl.result.items |-> crawl.result.items[i].source_url])
       /\ { crawl.result.items[i].source_url : i \in DOMAIN crawl.result.items }
            = { u \in LinkedPages(crawl.site) : crawl.site.pages[u] = "named" }
       /\ \A i \in DOMAIN crawl.result.items :
            crawl.result.items[i] = named_item(crawl.site, crawl.result.items[i].source_url)

\* a returned crawl of two catalogs that both link p2, with one page of three
\* dropped for its blank heading
C12_Witness ==
  /\ crawl.pc = "returned"
  /\ DOMAIN crawl.site.links = {"c1", "c2"}
  /\ crawl.site.links["c1"] = {"p3", "p2"} /\ crawl.site.links["c2"] = {"p1", "p2"}
  /\ crawl.site.pages["p2"] = "blank"
  /\ Len(crawl.result.product_urls) = 3 /\ Len(crawl.result.items) = 2


\* ------------------------------------------------- claims on product pages
\* the attributes with the given key prefix
Under(prefix) ==
  { i \in DOMAIN page.item.attributes : page.item.attributes[i].key[1] = prefix }

\* the line is key, ":", value, with no ":" in the key
SplitsInto(line, k, v) ==
  /\ k # << >> /\ v # << >>
  /\ line = k \o <<":">> \o v
  /\ \A i \in DOMAIN k : k[i] # ":"

\* C13: a positioning block of several lines gives one attribute per line
\* that has a colon, key "positioning." and the text before the first colon,
\* value the text after it on the same line; no value holds text of another
\* line.
C13_KeyValuePerLine ==
  (page.pc = "parsed" /\ page.html.positioning.some) =>
    LET lines == page.html.positioning.lines
    IN /\ \A i \in Under("positioning.") :
            \E n \in DOMAIN lines :
              SplitsInto(lines[n], Tail(page.item.attributes[i].key),
                         page.item.attributes[i].value.lines[1])
       /\ \A n \in DOMAIN lines :
            (\E c \in DOMAIN lines[n] :
               SplitsInto(lines[n], SubSeq(lines[n], 1, c - 1),
                          SubSeq(lines[n], c + 1, Len(lines[n]))))
            => \E i \in Under("positioning.") :
                 lines[n][Len(Tail(page.item.attributes[i].key)) + 1] = ":"
                 /\ Tail(page.item.attributes[i].key)
                      = SubSeq(lines[n], 1, Len(Tail(page.item.attributes[i].key)))

\* the field was found with a value that is not empty
Found(field) == field.some /\ field.lines # << >>

HasKey(key) == \E i \in DOMAIN page.item.attributes : page.item.attributes[i].key = key

\* C14: every attribute parse_product returns has a value that is neither
\* None nor "", the selector "regex_on_page_text", the product URL as
\* source_url, and an evidence of 1 to 240 characters that is the snippet cut
\* to 240 characters; a field without a value gives no attribute.
C14_AttributeRecords ==
  page.pc = "parsed" =>
    /\ \A i \in DOMAIN page.item.attributes :
         LET a == page.item.attributes[i]
         IN /\ a.value.some
            /\ "lines" \in DOMAIN a.value => a.value.lines # << >>
            /\ a.selector = "regex_on_page_text"
            /\ a.source_url = page.url
            /\ a.evidence.len >= 1 /\ a.evidence.len <= 240
            /\ a.evidence.text # << >> /\ a.evidence.text[1] # << >>
            /\ a.evidence.len = IF chars(a.evidence.text[1]) > 240 THEN 240
                                ELSE chars(a.evidence.text[1])
    /\ HasKey(<<"fao">>) <=> Found(page.html.fao)
    /\ HasKey(<<"grain_type">>) <=> Found(page.html.grain)
    /\ HasKey(<<"maturity_group">>) <=> Found(page.html.maturity)
    /\ HasKey(<<"advantages_text">>) <=> Found(page.html.advantages)

\* a parsed page with an empty grain type, advantages longer than 240
\* characters and a rating
C14_Witness ==
  /\ page.pc = "parsed"
  /\ page.html.grain = Some(<< >>)
  /\ page.html.advantages = Some(<<<<"essay">>, <<"essay">>>>)
  /\ \E i \in DOMAIN page.item.attributes :
       /\ page.item.attributes[i].key = <<"advantages_text">>
       /\ page.item.attributes[i].evidence.len = 240
  /\ \E i \in DOMAIN page.item.attributes : page.item.attributes[i].key[1] = "rating."
  /\ ~HasKey(<<"grain_type">>)


\* ------------------------------------------------- claims on the fingerprint
\* the item's attribute list is a permutation of the rows, provenance aside
PermutationOf(item, rows) ==
  /\ Len(item.attributes) = Len(rows)
  /\ ItemTriples(item) = RowTriples(rows)

\* C15: an import of one item whose hybrid exists is classified unchanged when
\* its attribute list is a permutation of the stored attributes or differs
\* from them only in selector, source_url or extracted_at, and updated when a
\* key, a stringified value or an evidence differs.
C15_FingerprintClassifies ==
  (imp.served /\ imp.ok /\ Len(imp.batch) = 1) =>
    \A hid \in DOMAIN imp.hybrids_before :
      same_key(imp.hybrids_before[hid], imp.batch[1]) =>
        LET rows == SelectSeq(imp.before, LAMBDA r : r.hybrid_id = hid)
        IN IF PermutationOf(imp.batch[1], rows)
           THEN imp.counts = [added |-> 0, updated |-> 0, unchanged |-> 1]
           ELSE imp.counts = [added |-> 0, updated |-> 1, unchanged |-> 0]

\* the same, for items whose evidences are strings
C15_StringEvidence ==
  (imp.served /\ imp.ok /\ Len(imp.batch) = 1
   /\ \A j \in DOMAIN imp.batch[1].attributes : imp.batch[1].attributes[j].evidence.t = "str")
  => C15_FingerprintClassifies


\* --------------------------------------------------- claims on finished runs
\* a step leaves the status, the log and the counters of a completed run alone
KeepsCompleted(j) ==
  RUNS[j].status = "completed" =>
    /\ RUNS'[j].status = "completed"
    /\ RUNS'[j].step_logs = RUNS[j].step_logs
    /\ RUNS'[j].counts = RUNS[j].counts

\* C16: once a run's status is "completed" no later step changes its status,
\* its log or its counters, on every path of run_update, the path with no
\* enabled source included.
C16_CompletedIsTerminal == [][\A j \in Jobs : KeepsCompleted(j)]_vars

\* the same on the paths with an enabled source
C16_TerminalWithSources ==
  [][\A j \in Jobs : job[j].enabled # << >> \/ job[j].src # "" => KeepsCompleted(j)]_vars


\* ---------------------------------------------------- claims on the runs table
IsPrefix(a, b) == Len(a) <= Len(b) /\ SubSeq(b, 1, Len(a)) = a

\* a step that appends to the log of job j
LogStep(j) == RUNS'[j].step_logs # RUNS[j].step_logs

\* C17: right after every log step the persisted row of the job holds the
\* in-memory log, counters, status and finished_at; the log, in memory and
\* persisted, only grows by appending one entry at its end; when the worker
\* has finished the persisted row has status "completed", a finished_at and
\* the final counters.
C17_PersistedTracksMemory ==
  /\ [][\A j \in Jobs :
          /\ IsPrefix(RUNS[j].step_logs, RUNS'[j].step_logs)
          /\ IsPrefix(runs_table[j].logs_json, runs_table'[j].logs_json)
          /\ LogStep(j) =>
               /\ Len(RUNS'[j].step_logs) = Len(RUNS[j].step_logs) + 1
               /\ runs_table'[j].logs_json = RUNS'[j].step_logs
               /\ runs_table'[j].counts_json = RUNS'[j].counts
               /\ runs_table'[j].status = RUNS'[j].status
               /\ runs_table'[j].finished_at = RUNS'[j].finished_at]_vars
  /\ [](\A j \in Jobs :
          Done(j) => /\ runs_table[j].status = "completed"
                     /\ runs_table[j].finished_at # 0
                     /\ runs_table[j].counts_json = RUNS[j].counts
                     /\ runs_table[j].logs_json = RUNS[j].step_logs)

\* a finished run that reconciled items and logged its steps
C17_Witness ==
  \E j \in Jobs :
    /\ Done(j)
    /\ RUNS[j].counts.parsed > 0 /\ RUNS[j].counts.discovered > 0
    /\ Len(RUNS[j].step_logs) >= 6
    /\ runs_table[j] = run_row(RUNS[j])


\* ------------------------------------------------------- claims on dry runs
\* C18: a run whose request has dry_run set changes no hybrid and no attribute
\* row and never invokes upsert_items, its added, updated and unchanged stay
\* 0, its discovered and parsed count the product URLs and the items of the
\* crawl, and it reaches "completed".
C18_DryRunWritesNothing ==
  /\ [][(\E j \in Jobs : Started(j) /\ job[j].req.dry_run) => db' = db]_vars
  /\ [](\A j \in Jobs :
          (Started(j) /\ job[j].req.dry_run) =>
            /\ job[j].pc \notin {"upsert", "add_counts"}
            /\ NothingReconciled(RUNS[j].counts)
            /\ (Done(j) /\ job[j].src = "bayer_ua_dekalb" /\ job[j].result.ok) =>
                 /\ RUNS[j].counts.discovered = Len(job[j].result.product_urls)
                 /\ RUNS[j].counts.parsed = Len(job[j].result.items)
                 /\ RUNS[j].counts.errors = 0)
  /\ \A j \in Jobs : (Started(j) /\ job[j].req.dry_run) ~> (Done(j) /\ Completed(j))

\* a finished dry run that discovered two product pages and parsed their items
C18_Witness ==
  \E j \in Jobs :
    /\ Done(j) /\ job[j].req.dry_run
    /\ RUNS[j].counts.discovered = 2 /\ RUNS[j].counts.parsed >= 1
    /\ LogEntries(j, "Dry-run enabled. Skipping database writes.") # {}


\* ---------------------------------------------------- claims on the registry
\* C19: every registration of a run in RUNS (post_update) and every lookup of
\* a run in it (run_update, get_update) is made by a thread that holds LOCK.
C19_RegistryAccessesLocked == access.op # "none" => access.locked

\* the lookup of run_update is made under the lock
C19_WorkerLookupLocked == access.op = "lookup" => access.locked


\* ------------------------------------------------- claims on the counters
Classified(counts) == counts.added + counts.updated + counts.unchanged

\* C20: when upsert_items has reconciled a batch to completion, added +
\* updated + unchanged is the number of items in the batch, also when another
\* worker inserted an item's identity key between this worker's lookup and
\* its insert, and when two items of the batch share an identity key.
C20_EveryItemCountedOnce ==
  \A w \in Workers :
    wk[w].pc \in {"commit", "fallback", "done"} => Classified(wk[w].counts) = Len(wk[w].batch)

\* the same for imports that no other connection interleaves with
C20_CountedOnceAlone ==
  (imp.served /\ imp.ok) => Classified(imp.counts) = Len(imp.batch)


\* ------------------------------------------------------ claims on polling
\* finished_at is None (0) exactly when the status is "running"
Agrees(r) == (r.finished_at = 0) <=> (r.status = "running")

\* C21: in every response of get_update for a run, whatever the worker was
\* doing when the poll came, finished_at is null if and only if the status is
\* "running"; no response has status "completed" with a null finished_at.
C21_PollSeesFinishedAtWithStatus ==
  poll.status \in {"running", "completed"} => Agrees(poll)

\* the same for the rows of the runs table
C21_RowsAgree ==
  \A j \in Jobs : runs_table[j].status \in {"running", "completed"} => Agrees(runs_table[j])


\* ------------------------------------------------ claims on failing batches
\* worker w leaves upsert_items by an exception in this step
Raises(w) == wk[w].pc # "failed" /\ wk'[w].pc = "failed"

\* C22: when upsert_items raises at the k-th item of a batch, nothing it did
\* for the items before is persisted: the raising step leaves the committed
\* hybrids and attributes rows as they are and ends the transaction, and the
\* committed rows only ever change by the commit of a call that reached the
\* end of its batch.
C22_FailingBatchLeavesStore ==
  /\ [][\A w \in Workers :
          Raises(w) => /\ db' = db
                       /\ writer' # w
                       /\ (writer = w => pending' = EmptyDb)]_vars
  /\ [][db' # db => \E w \in Workers :
                      /\ wk[w].pc = "commit" /\ wk'[w].pc = "fallback"
                      /\ writer = w /\ db' = pending]_vars
  /\ [](\A w \in Workers : wk[w].pc = "failed" => writer # w)

\* a call that raised at its second item after it had replaced the attributes
\* of a stored hybrid for its first item
C22_Witness ==
  \E w \in Workers :
    /\ wk[w].pc = "failed" /\ wk[w].idx = 2
    /\ wk[w].counts.updated = 1
    /\ db.hybrids # << >> /\ db.attributes # << >>
    /\ db.hybrids[1].last_updated < wk[w].now

====
